---- MODULE Spec2Model ----
(***************************************************************************)
(* Model of rvlator (src/src/rvlator.rs): the RV64I fetch / decode /       *)
(* execute core RiscvCpu and the run loop rvlator().                       *)
(*                                                                         *)
(* Machine words are modelled at full width as the set of their set bit    *)
(* positions: a u64 is a subset of 0..63, a u32 a subset of 0..31.  Bitwise*)
(* operators are set operators, shifts move positions, and addition is a   *)
(* ripple carry over the 64 positions, so nothing is truncated to the      *)
(* model checker's integer range.                                          *)
(***************************************************************************)
EXTENDS Integers, Naturals, Sequences, FiniteSets, TLC

VARIABLES
    ixu,      \* RiscvCpu.ixu: [0..31 -> u64]
    pc,       \* RiscvCpu.pc: u64
    mem,      \* RiscvCpu.mem: sequence of bytes (1-indexed; mem[i+1] is Rust's mem[i])
    checks,   \* build profile: TRUE = overflow checks on (debug), FALSE = off (release)
    op,       \* the last operation performed on the machine
    inst,     \* the word last returned by fetch, or last handed to execute
    res,      \* result of the last operation: "Ok", "FetchError", "DecodeError", "panic"
    steps,    \* number of driver calls made so far (Spec)
    k,        \* iterations of the run loop completed (SpecRun)
    phase     \* position of the run loop (SpecRun)

vars == <<ixu, pc, mem, checks, op, inst, res, steps, k, phase>>

\* struct RiscvCpu and the results of its methods
TypeOK ==
    /\ ixu \in [0 .. 31 -> SUBSET (0 .. 63)]
    /\ pc \subseteq 0 .. 63
    /\ mem \in Seq(0 .. 255)
    /\ checks \in BOOLEAN
    /\ op \in {"new", "fetch", "execute", "advance", "setpc"}
    /\ inst \subseteq 0 .. 31
    /\ res \in {"Ok", "FetchError", "DecodeError", "panic"}
    /\ steps \in Nat
    /\ k \in Nat
    /\ phase \in {"head", "fetch", "execute", "advance", "done", "abort"}

-----------------------------------------------------------------------------
(* Bounds of the model *)

MaxSteps == 2
MaxMemLen == 6
MaxProgLen == 12

-----------------------------------------------------------------------------
(* Program constants *)

RESET_VECTOR == 0
INST_OPCODE_POS == 0
INST_OPCODE_WID == 7
INST_RD_POS == 7
INST_RD_WID == 5
INST_FUNCT3_POS == 12
INST_FUNCT3_WID == 3
INST_RS1_POS == 15
INST_RS1_WID == 5
INST_RS2_POS == 20
INST_RS2_WID == 5
INST_FUNCT7_POS == 25
INST_FUNCT7_WID == 7
INST_SHAMT_POS == 20
INST_SHAMT_WID == 6
INST_IMM11_0_POS == INST_RS2_POS
INST_IMM11_0_WID == INST_RS2_WID + INST_FUNCT7_WID
INST_IMM31_12_POS == INST_FUNCT3_POS
INST_IMM31_12_WID == INST_FUNCT3_WID + INST_RS1_WID + INST_IMM11_0_WID

-----------------------------------------------------------------------------
(* Machine words as sets of bit positions *)

U64Bits == 0 .. 63
U32Bits == 0 .. 31

\* u64::MAX
U64Max == U64Bits

\* the weight of bit i
Pow2 == [i \in 0 .. 30 |-> 2 ^ i]

\* The bits of a small non-negative integer (n < 2^31).
FromInt(n) == {i \in 0 .. 30 : (n \div Pow2[i]) % 2 = 1}

RECURSIVE BitSum(_, _)
BitSum(s, i) == IF i < 0 THEN 0
                ELSE (IF i \in s THEN Pow2[i] ELSE 0) + BitSum(s, i - 1)

\* The integer a word denotes; used only where the word is below 2^31.
ToInt(s) == BitSum(s, 30)

\* val >> n  (logical)
Shr(s, n) == {i - n : i \in {j \in s : j >= n}}

\* val << n on a u64: bits shifted past bit 63 are dropped
Shl64(s, n) == {i + n : i \in s} \cap U64Bits

\* val << n on a u32
Shl32(s, n) == {i + n : i \in s} \cap U32Bits

\* a ^ b
Xor(a, b) == (a \ b) \cup (b \ a)

\* the sequence of carries into bits 0..64 of a + b, built once
RECURSIVE Carries(_, _, _, _)
Carries(a, b, i, acc) ==
    IF i > 64 THEN acc
    ELSE LET c == acc[i]
             x == (i - 1) \in a
             y == (i - 1) \in b
         IN  Carries(a, b, i + 1, Append(acc, (x /\ y) \/ (x /\ c) \/ (y /\ c)))

\* TRUE when a + b does not fit in a u64
AddOverflows(a, b) == Carries(a, b, 1, <<FALSE>>)[65]

\* a faulty addition: the sum clamped at u64::MAX (u64::saturating_add)
saturating_add(a, b) ==
    LET cs == Carries(a, b, 1, <<FALSE>>)
    IN  IF cs[65] THEN U64Bits
        ELSE {i \in U64Bits : ((i \in a) # (i \in b)) # cs[i + 1]}

\* u64::wrapping_add: the sum modulo 2^64
wrapping_add(a, b) ==
    LET cs == Carries(a, b, 1, <<FALSE>>)
    IN  {i \in U64Bits : ((i \in a) # (i \in b)) # cs[i + 1]}

\* a < b as u64
LtU(a, b) ==
    LET d == Xor(a, b)
    IN  d # {} /\ (CHOOSE i \in d : \A j \in d : j <= i) \in b

\* (a as i64) < (b as i64)
LtS(a, b) ==
    IF (63 \in a) # (63 \in b) THEN 63 \in a ELSE LtU(a, b)

-----------------------------------------------------------------------------
(* Bitfield macros and sign extension *)

\* (1 << n) - 1
LowMask(n) == 0 .. (n - 1)

\* bitmask32!(width, pos) == (((1 as u32) << width) - 1) << pos
bitmask32(width, pos) == Shl32(LowMask(width), pos)

\* getfield32!(val, width, pos) == (val & bitmask32!(width, pos)) >> pos
getfield32(val, width, pos) == Shr(val \cap bitmask32(width, pos), pos)

signext12to64(val) ==
    IF Shr(val, 12 - 1) = {0}
    THEN val \cup (U64Max \ LowMask(12))
    ELSE val

signext20to64(val) ==
    IF Shr(val, 20 - 1) = {0}
    THEN val \cup (U64Max \ LowMask(20))
    ELSE val

\* 1 << bits on a u64.  A shift amount of 64 or more is an overflow: with
\* overflow checks the build panics, without them the amount is taken mod 64.
ShlOneOverflows(bits) == bits >= 64

\* (1 << bits) - 1 once the shift has gone through
ShlOneMinusOne(bits) == LowMask(bits % 64)

\* signext_nto64(val, bits): [panic, val]
signext_nto64(val, bits) ==
    IF Shr(val, bits - 1) = {0}
    THEN IF ShlOneOverflows(bits) /\ checks
         THEN [panic |-> TRUE, val |-> val]
         ELSE [panic |-> FALSE,
               val |-> val \cup (U64Max \ ShlOneMinusOne(bits))]
    ELSE [panic |-> FALSE, val |-> val]

-----------------------------------------------------------------------------
(* RiscvCpu::fetch *)

\* self.pc < self.mem.len()
PcInMem == LtU(pc, FromInt(Len(mem)))

\* mem[idx] | mem[idx+1] << 8 | mem[idx+2] << 16 | mem[idx+3] << 24
LoadWord(idx) ==
    FromInt(mem[idx + 1])
        \cup Shl32(FromInt(mem[idx + 2]), 8)
        \cup Shl32(FromInt(mem[idx + 3]), 16)
        \cup Shl32(FromInt(mem[idx + 4]), 24)

\* The outcome of fetch(): [res, inst].  Indexing the Vec past its end panics.
FetchOutcome ==
    IF PcInMem
    THEN LET idx == ToInt(pc)
         IN  IF idx + 3 < Len(mem)
             THEN [res |-> "Ok", inst |-> LoadWord(idx)]
             ELSE [res |-> "panic", inst |-> inst]
    ELSE [res |-> "FetchError", inst |-> inst]

-----------------------------------------------------------------------------
(* RiscvCpu::execute *)

Done(regs) == [res |-> "Ok", ixu |-> regs]
Panic == [res |-> "panic", ixu |-> ixu]
DecodeErr == [res |-> "DecodeError", ixu |-> ixu]

\* a faulty format check: enc != 0x3 && bbb == 0x7
IsValid32Conj(w) ==
    LET enc == Shr(w \cap Shl32(LowMask(2), 0), 0)
        bbb == Shr(w \cap Shl32(LowMask(3), 2), 2)
    IN  ~(enc # {0, 1} /\ bbb = {0, 1, 2})

\* the check of line 231 passes: !(enc != 0x3 || bbb == 0x7)
IsValid32(w) ==
    LET enc == getfield32(w, 2, 0)
        bbb == getfield32(w, 3, 2)
    IN  ~(enc # FromInt(3) \/ bbb = FromInt(7))

\* a faulty destination: the rs1 field taken for rd
RdOfRs1(w) == ToInt(Shr(w \cap Shl32(LowMask(INST_RS1_WID), INST_RS1_POS), INST_RS1_POS))

RdOf(w) == ToInt(getfield32(w, INST_RD_WID, INST_RD_POS))
Rs1Of(w) == ToInt(getfield32(w, INST_RS1_WID, INST_RS1_POS))
ShamtOf(w) == ToInt(getfield32(w, INST_SHAMT_WID, INST_SHAMT_POS))

\* self.ixu[rd] = v
WriteReg(rd, v) == [ixu EXCEPT ![rd] = v]

\* opcode 0b0010111: self.ixu[rd] = self.pc + (simm20 << 12)
ExecAuipc(w) ==
    LET rd == RdOf(w)
        imm20 == getfield32(w, INST_IMM31_12_WID, INST_IMM31_12_POS)
        simm20 == signext20to64(imm20)
        off == Shl64(simm20, 12)
    IN  IF ~(rd < 32) THEN Panic
        ELSE IF AddOverflows(pc, off) /\ checks THEN Panic
        ELSE Done(WriteReg(rd, wrapping_add(pc, off)))

\* opcode 0b0110111: self.ixu[rd] = simm20 << 12
ExecLui(w) ==
    LET rd == RdOf(w)
        imm20 == getfield32(w, INST_IMM31_12_WID, INST_IMM31_12_POS)
        simm20 == signext20to64(imm20)
    IN  IF ~(rd < 32) THEN Panic
        ELSE Done(WriteReg(rd, Shl64(simm20, 12)))

\* funct3 0b101: SRLI or SRAI, selected by funct7
ExecShiftRight(w, rd, rs1) ==
    LET funct7 == ToInt(getfield32(w, INST_FUNCT7_WID, INST_FUNCT7_POS))
        shamt == ShamtOf(w)
    IN  CASE funct7 = 0 -> Done(WriteReg(rd, Shr(ixu[rs1], shamt)))
          [] funct7 = 32 ->
                LET r == signext_nto64(Shr(ixu[rs1], shamt), 64 - shamt)
                IN  IF r.panic THEN Panic ELSE Done(WriteReg(rd, r.val))
          [] OTHER -> Panic

\* opcode 0b0010011: the register-immediate instructions
ExecOpImm(w) ==
    LET rd == RdOf(w)
        rs1 == Rs1Of(w)
        imm12 == getfield32(w, INST_IMM11_0_WID, INST_IMM11_0_POS)
        simm12 == signext12to64(imm12)
        funct3 == ToInt(getfield32(w, INST_FUNCT3_WID, INST_FUNCT3_POS))
    IN  IF ~(rd < 32) \/ ~(rs1 < 32) THEN Panic
        ELSE CASE funct3 = 0 -> Done(WriteReg(rd, wrapping_add(ixu[rs1], simm12)))
               [] funct3 = 1 -> Done(WriteReg(rd, Shl64(ixu[rs1], ShamtOf(w))))
               [] funct3 = 2 -> Done(WriteReg(rd, IF LtS(ixu[rs1], simm12) THEN {0} ELSE {}))
               [] funct3 = 3 -> Done(WriteReg(rd, IF LtU(ixu[rs1], simm12) THEN {0} ELSE {}))
               [] funct3 = 4 -> Done(WriteReg(rd, Xor(ixu[rs1], simm12)))
               [] funct3 = 5 -> ExecShiftRight(w, rd, rs1)
               [] funct3 = 6 -> Done(WriteReg(rd, ixu[rs1] \cup simm12))
               [] funct3 = 7 -> Done(WriteReg(rd, ixu[rs1] \cap simm12))
               [] OTHER -> Panic

\* The outcome of execute(w): [res, ixu]
ExecOutcome(w) ==
    IF ~IsValid32(w) THEN DecodeErr
    ELSE LET opcode == ToInt(getfield32(w, INST_OPCODE_WID, INST_OPCODE_POS))
         IN  CASE opcode = 23 -> ExecAuipc(w)
               [] opcode = 55 -> ExecLui(w)
               [] opcode = 19 -> ExecOpImm(w)
               [] OTHER -> Panic

-----------------------------------------------------------------------------
(* Instruction words used as inputs *)

Place(n, pos) == {i + pos : i \in FromInt(n)}

\* I-type word of opcode 0010011
IWord(imm12, rs1, funct3, rd) ==
    Place(imm12, 20) \cup Place(rs1, 15) \cup Place(funct3, 12)
        \cup Place(rd, 7) \cup FromInt(19)

\* U-type word
UWord(imm20, rd, opcode) == Place(imm20, 12) \cup Place(rd, 7) \cup FromInt(opcode)

\* the four bytes of a word, least significant first
WordBytes(w) == [j \in 1 .. 4 |-> ToInt(getfield32(w, 8, 8 * (j - 1)))]

Addi_a0_zero_m4 == IWord(4092, 0, 0, 10)    \* 0xffc00513
Addi_a0_a0_m1 == IWord(4095, 10, 0, 10)     \* 0xfff50513
Lui_s4_dead == UWord(57005, 20, 55)         \* 0x0deada37
Auipc_s3_dead == UWord(57005, 19, 23)       \* 0x0dead997

ShiftAmounts == {0, 1, 32, 63}

\* addi a0,zero,-4; addi a0,a0,-1; addi a0,a0,1; addi zero,zero,1; addi a0,zero,2047
AddiWords ==
    {Addi_a0_zero_m4, Addi_a0_a0_m1, IWord(1, 10, 0, 10), IWord(1, 0, 0, 0),
     IWord(2047, 0, 0, 10)}

\* slli a2,a0,0x3c; srli a0,a0,sh; srai a0,a0,sh
ShiftWords ==
    {IWord(60, 10, 1, 12)}
        \cup {IWord(sh, 10, 5, 10) : sh \in ShiftAmounts}
        \cup {IWord(1024 + sh, 10, 5, 10) : sh \in ShiftAmounts}

\* slti, sltiu, xori, ori, andi with rd = a2, rs1 = a0
LogicWords ==
    {IWord(4092, 10, 2, 12), IWord(4092, 10, 3, 12), IWord(4095, 10, 4, 12),
     IWord(240, 10, 6, 12), IWord(2047, 10, 7, 12)}

\* lui s4,0xdead; lui a0,0x80000; auipc s3,0xdead; auipc s3,0xfffff
UpperWords ==
    {Lui_s4_dead, UWord(524288, 10, 55), Auipc_s3_dead, UWord(1048575, 19, 23)}

\* words the format check rejects: 0x00000000, 0x0000001f
MalformedWords == {{}, 0 .. 4}

\* well-formed words of opcodes the code does not implement: 0x33 (OP), 0x03 (LOAD)
UnimplementedWords == {FromInt(51) \cup Place(10, 7), FromInt(3)}

Words ==
    AddiWords \cup ShiftWords \cup LogicWords \cup UpperWords
        \cup MalformedWords \cup UnimplementedWords

\* values a driver assigns to pc directly
PcTargets == {FromInt(4), FromInt(4096)}

RECURSIVE Flatten(_)
Flatten(ws) == IF ws = <<>> THEN <<>> ELSE WordBytes(Head(ws)) \o Flatten(Tail(ws))

Prefixes(bytes) == {SubSeq(bytes, 1, n) : n \in 0 .. (IF Len(bytes) < MaxMemLen THEN Len(bytes) ELSE MaxMemLen)}

\* memory images of the driver: the first bytes of one instruction stream
TestBin == Flatten(<<Addi_a0_zero_m4, Addi_a0_a0_m1, Lui_s4_dead, Auipc_s3_dead>>)
TestImages == Prefixes(TestBin)

\* memory images of the run loop: the first bytes of any stream of these words
ProgWords == {Addi_a0_zero_m4, Addi_a0_a0_m1, {}, FromInt(51) \cup Place(10, 7)}

RECURSIVE Programs(_)
Programs(n) ==
    IF n = 0 THEN {<<>>}
    ELSE {<<w>> \o p : w \in ProgWords, p \in Programs(n - 1)}

RunImages ==
    {SubSeq(Flatten(p), 1, n) :
        p \in Programs((MaxProgLen + 3) \div 4), n \in 0 .. MaxProgLen}

-----------------------------------------------------------------------------
(* The machine driven call by call, as a host driver or the tests do *)

\* RiscvCpu::new(code)
New(code) ==
    /\ ixu = [r \in 0 .. 31 |-> {}]
    /\ pc = FromInt(RESET_VECTOR)
    /\ mem = code
    /\ op = "new"
    /\ inst = {}
    /\ res = "Ok"

Init ==
    /\ \E code \in TestImages : New(code)
    /\ checks \in BOOLEAN
    /\ steps = 0
    /\ k = 0
    /\ phase = "head"

\* a panic ends the process: nothing runs after it
Alive == res # "panic"

Fetch ==
    /\ Alive
    /\ steps < MaxSteps
    /\ op' = "fetch"
    /\ LET o == FetchOutcome
       IN  res' = o.res /\ inst' = o.inst
    /\ steps' = steps + 1
    /\ UNCHANGED <<ixu, pc, mem, checks, k, phase>>

Execute(w) ==
    /\ Alive
    /\ steps < MaxSteps
    /\ op' = "execute"
    /\ inst' = w
    /\ LET o == ExecOutcome(w)
       IN  res' = o.res /\ ixu' = o.ixu
    /\ steps' = steps + 1
    /\ UNCHANGED <<pc, mem, checks, k, phase>>

\* cpu.pc += 4
AdvancePc ==
    /\ Alive
    /\ steps < MaxSteps
    /\ op' = "advance"
    /\ pc' = wrapping_add(pc, FromInt(4))
    /\ res' = "Ok"
    /\ steps' = steps + 1
    /\ UNCHANGED <<ixu, mem, checks, inst, k, phase>>

\* cpu.pc = p
SetPc(p) ==
    /\ Alive
    /\ steps < MaxSteps
    /\ op' = "setpc"
    /\ pc' = p
    /\ res' = "Ok"
    /\ steps' = steps + 1
    /\ UNCHANGED <<ixu, mem, checks, inst, k, phase>>

Next ==
    \/ Fetch
    \/ \E w \in Words \cup (IF op = "fetch" /\ res = "Ok" THEN {inst} ELSE {}) : Execute(w)
    \/ AdvancePc
    \/ \E p \in PcTargets : SetPc(p)

Spec == Init /\ [][Next]_vars

-----------------------------------------------------------------------------
(* rvlator(): the run loop *)

InitRun ==
    /\ \E code \in RunImages : New(code)
    /\ checks \in BOOLEAN
    /\ steps = 0
    /\ k = 0
    /\ phase = "head"

\* a faulty range: the length rounded up to whole words
LoopBoundUp == (Len(mem) + 3) \div 4

\* the range of the loop: 0..cpu.mem.len()/4
LoopBound == Len(mem) \div 4

\* for _ in 0..cpu.mem.len()/4
LoopHead ==
    /\ phase = "head"
    /\ phase' = IF k < LoopBound THEN "fetch" ELSE "done"
    /\ UNCHANGED <<ixu, pc, mem, checks, op, inst, res, steps, k>>

\* let inst = cpu.fetch().unwrap();
LoopFetch ==
    /\ phase = "fetch"
    /\ op' = "fetch"
    /\ LET o == FetchOutcome
       IN  /\ res' = o.res
           /\ inst' = o.inst
           /\ phase' = IF o.res = "Ok" THEN "execute" ELSE "abort"
    /\ UNCHANGED <<ixu, pc, mem, checks, steps, k>>

\* cpu.execute(inst).unwrap();
LoopExecute ==
    /\ phase = "execute"
    /\ op' = "execute"
    /\ LET o == ExecOutcome(inst)
       IN  /\ res' = o.res
           /\ ixu' = o.ixu
           /\ phase' = IF o.res = "Ok" THEN "advance" ELSE "abort"
    /\ UNCHANGED <<pc, mem, checks, inst, steps, k>>

\* cpu.pc += 4
PcStep == FromInt(4)

\* cpu.print_registers(); cpu.pc += 4;
LoopAdvance ==
    /\ phase = "advance"
    /\ op' = "advance"
    /\ IF AddOverflows(pc, PcStep) /\ checks
       THEN res' = "panic" /\ phase' = "abort" /\ UNCHANGED <<pc, k>>
       ELSE /\ pc' = wrapping_add(pc, PcStep)
            /\ res' = "Ok"
            /\ k' = k + 1
            /\ phase' = "head"
    /\ UNCHANGED <<ixu, mem, checks, inst, steps>>

NextRun == LoopHead \/ LoopFetch \/ LoopExecute \/ LoopAdvance

SpecRun == InitRun /\ [][NextRun]_vars

-----------------------------------------------------------------------------
(* Reference notions used to state the properties *)

\* bits hi:lo of a word, as a number
Bits(w, hi, lo) == ToInt({i - lo : i \in w \cap (lo .. hi)})

\* a u64 as four 16-bit limbs, least significant first
Limbs(v) == [j \in 1 .. 4 |-> Bits(v, 16 * j - 1, 16 * (j - 1))]

\* (a + b) mod 2^64 on limbs, by schoolbook addition
LimbSum(a, b) ==
    LET s1 == a[1] + b[1]
        s2 == a[2] + b[2] + (s1 \div 65536)
        s3 == a[3] + b[3] + (s2 \div 65536)
        s4 == a[4] + b[4] + (s3 \div 65536)
    IN  <<s1 % 65536, s2 % 65536, s3 % 65536, s4 % 65536>>

\* sext12(imm) mod 2^64: imm, or imm - 4096 for imm >= 2048
Sext12Limbs(imm) ==
    IF imm < 2048 THEN <<imm, 0, 0, 0>>
    ELSE <<61440 + imm, 65535, 65535, 65535>>

\* (sext20(imm) << 12) mod 2^64
Upper20Limbs(imm) ==
    LET hi == IF imm < 524288 THEN 0 ELSE 65535
    IN  <<(imm % 16) * 4096, imm \div 16, hi, hi>>

\* x >> sh with zero fill, and with sign fill
Srl(x, sh) == {i \in U64Bits : (i + sh) \in x}
Sra(x, sh) == {i \in U64Bits : IF i + sh <= 63 THEN (i + sh) \in x ELSE 63 \in x}

WellFormed(w) == 0 \in w /\ 1 \in w /\ ~({2, 3, 4} \subseteq w)
IsOpImm(w) == WellFormed(w) /\ Bits(w, 6, 0) = 19
IsAddi(w) == IsOpImm(w) /\ Bits(w, 14, 12) = 0
IsSrli(w) == IsOpImm(w) /\ Bits(w, 14, 12) = 5 /\ Bits(w, 31, 26) = 0
IsSrai(w) == IsOpImm(w) /\ Bits(w, 14, 12) = 5 /\ Bits(w, 31, 26) = 16
IsAuipc(w) == WellFormed(w) /\ Bits(w, 6, 0) = 23

\* the step is a call execute(inst')
Executes == op' = "execute"

-----------------------------------------------------------------------------
(* Properties *)

\* C1: register 0 always reads zero, whatever words have been executed.
ZeroRegisterIsZero == ixu[0] = {}

\* C2: fetch returns FetchError whenever pc + 4 exceeds the memory length, and
\* otherwise returns exactly the little-endian word at pc; it never aborts.
FetchIsTotal ==
    op = "fetch" =>
        LET p == ToInt(pc)
        IN  IF p + 4 > Len(mem)
            THEN res = "FetchError"
            ELSE /\ res = "Ok"
                 /\ \A j \in 0 .. 3 : Bits(inst, 8 * j + 7, 8 * j) = mem[p + j + 1]

UnimplementedIsDecodeError ==
    (op = "execute" /\ WellFormed(inst) /\ Bits(inst, 6, 0) \notin {19, 23, 55})
        => res = "DecodeError"

\* C5: SRAI returns Ok and sets x[rd] to x[rs1] shifted right arithmetically
\* by the 6-bit shamt of bits 25:20, for every shamt in 0..63.
SraiIsArithmetic ==
    [][(Executes /\ IsSrai(inst')) =>
        /\ res' = "Ok"
        /\ ixu'[Bits(inst', 11, 7)] = Sra(ixu[Bits(inst', 19, 15)], Bits(inst', 25, 20))]_vars

\* C6: SRLI returns Ok and sets x[rd] to x[rs1] shifted right logically by
\* the 6-bit shamt of bits 25:20, for every shamt in 0..63.
SrliIsLogical ==
    [][(Executes /\ IsSrli(inst')) =>
        /\ res' = "Ok"
        /\ ixu'[Bits(inst', 11, 7)] = Srl(ixu[Bits(inst', 19, 15)], Bits(inst', 25, 20))]_vars

\* C7: ADDI returns Ok and sets x[rd] to (x[rs1] + sext12(imm)) mod 2^64.
AddiWraps ==
    [][(Executes /\ IsAddi(inst')) =>
        /\ res' = "Ok"
        /\ Limbs(ixu'[Bits(inst', 11, 7)]) =
               LimbSum(Limbs(ixu[Bits(inst', 19, 15)]), Sext12Limbs(Bits(inst', 31, 20)))]_vars

\* after addi a0,zero,-4 and addi a0,a0,-1, a0 = 0xfffffffffffffffb
AddiWrapsSeen ==
    /\ op = "execute"
    /\ inst = Addi_a0_a0_m1
    /\ res = "Ok"
    /\ Limbs(ixu[10]) = <<65531, 65535, 65535, 65535>>

\* C8: AUIPC returns Ok and sets x[rd] to (pc + (sext20(imm) << 12)) mod 2^64,
\* for every pc and every immediate.
AuipcAddsPc ==
    [][(Executes /\ IsAuipc(inst')) =>
        /\ res' = "Ok"
        /\ Limbs(ixu'[Bits(inst', 11, 7)]) =
               LimbSum(Limbs(pc), Upper20Limbs(Bits(inst', 31, 12)))]_vars

\* C9: the run loop runs step k at pc = 4k on the word at bytes 4k..4k+3,
\* no fetch in the loop fails, and the loop ends after Len(mem) \div 4 steps
\* with pc = 4 * (Len(mem) \div 4).
RunInOrder ==
    /\ pc = FromInt(4 * k)
    /\ k <= Len(mem) \div 4
    /\ phase \in {"fetch", "execute", "advance"} => k < Len(mem) \div 4
    /\ phase \in {"execute", "advance"} =>
           \A j \in 0 .. 3 : Bits(inst, 8 * j + 7, 8 * j) = mem[4 * k + j + 1]
    /\ phase = "advance" => (op = "execute" /\ res = "Ok")
    /\ phase = "abort" => op = "execute"
    /\ phase = "done" => k = Len(mem) \div 4

RunInOrderSeen ==
    /\ phase = "done"
    /\ k = 2
    /\ Len(mem) % 4 # 0
    /\ Limbs(ixu[10]) = <<65531, 65535, 65535, 65535>>

\* C10: fetch changes neither pc, registers nor memory; execute changes neither
\* pc nor memory, no register other than the one of bits 11:7, and no
\* register at all when it returns DecodeError.
StepFrame ==
    [][/\ op' = "fetch" => (ixu' = ixu /\ pc' = pc /\ mem' = mem)
       /\ Executes =>
            /\ pc' = pc
            /\ mem' = mem
            /\ LET rd == Bits(inst', 11, 7)
               IN  \A r \in (0 .. 31) \ {rd} : ixu'[r] = ixu[r]
            /\ res' = "DecodeError" => ixu' = ixu]_vars

StepFrameSeen ==
    /\ op = "execute"
    /\ res = "Ok"
    /\ pc = FromInt(4)
    /\ ixu[19] # {}

====
